---- MODULE Spec2Model ----
(***************************************************************************)
(* SubGen: the transcription worker (transcription.py), the main window's  *)
(* run handling (main.py), the translation client (transcription.py) and   *)
(* the subtitle text utilities (utils.py, components.py).                  *)
(*                                                                         *)
(* Eight specifications share the variables:                                 *)
(*   Spec          main thread (GUI event loop) and worker threads         *)
(*   SpecTranslate TranslationService.translate_text / translate_batch     *)
(*   SpecFormat    SubtitleEditor.get_srt_content and save_srt_to_vtt      *)
(*   SpecTimestamp validate_timestamp                                      *)
(*   SpecFair      Spec with fair scheduling of the worker and of wait()   *)
(*   SpecRuns      Spec with several runs, up to the start of the last one *)
(*   SpecSegments  _process_segments, _translate_segments and              *)
(*                 calculate_reading_speed on their segment lists          *)
(*   SpecSettings  save_settings, restore_settings and ThemeManager        *)
(* A specification leaves the variables of the others at their idle value. *)
(***************************************************************************)
EXTENDS Integers, Sequences, FiniteSets, TLC

VARIABLES
    \* ---- main window (SubtitleGenerator) ----
    media_file,            \* "none" | "audio" | "video": self.media_file by extension
    audio_file,            \* "none" | "media" | "extracted": self.audio_file
    subtitle_segments,     \* self.subtitle_segments, as its length
    ui,                    \* the widgets' visible / enabled / value properties
    timer_active,          \* self.timer.isActive()
    transcription_thread,  \* the run self.transcription_thread names, 0: no attribute
    main_pc,               \* where the main thread is: event loop or inside cancel_generation
    queue,                 \* queued signal deliveries posted to the main thread, FIFO
    \* ---- worker threads (WhisperTranscriptionThread), one per run ----
    thread,
    \* ---- translation client ----
    tr,
    \* ---- subtitle formatting ----
    fmt,
    \* ---- timestamp validation ----
    ts,
    \* ---- segment processing, translation of the segments, reading speed ----
    seg,
    \* ---- stored settings and the widgets they are restored to ----
    prefs

mainVars == <<media_file, audio_file, subtitle_segments, ui, timer_active,
              transcription_thread, main_pc, queue>>
runVars  == <<media_file, audio_file, subtitle_segments, ui, timer_active,
              transcription_thread, main_pc, queue, thread>>
vars     == <<media_file, audio_file, subtitle_segments, ui, timer_active,
              transcription_thread, main_pc, queue, thread, tr, fmt, ts, seg, prefs>>

(***************************************************************************)
(* Bounds of the model.                                                    *)
(***************************************************************************)
MaxRuns == 1          \* worker threads created in one behaviour
MaxSegments == 2      \* raw segments the speech model returns for one run

Runs == 1..MaxRuns

(***************************************************************************)
(* Idle values of the variable groups.                                     *)
(***************************************************************************)
NoThread ==
    [state |-> "unborn", pc |-> "start", cancelled |-> FALSE, translate |-> FALSE,
     total |-> 0, idx |-> 0, segments |-> 0, i |-> 0, events |-> << >>]

UiInit ==
    [generate_visible |-> TRUE, generate_enabled |-> FALSE, cancel_visible |-> FALSE,
     progress_visible |-> FALSE, progress_value |-> 0,
     save_enabled |-> FALSE, embed_enabled |-> FALSE, editor_visible |-> FALSE]

\* The window after __init__; no worker object exists yet.
WindowInit ==
    /\ media_file = "none"
    /\ audio_file = "none"
    /\ subtitle_segments = 0
    /\ ui = UiInit
    /\ timer_active = FALSE
    /\ transcription_thread = 0
    /\ main_pc = "loop"
    /\ queue = << >>

MainInit ==
    /\ WindowInit
    /\ thread = [r \in Runs |-> NoThread]

TrIdle == [pc |-> "idle"]
FmtIdle == [pc |-> "idle"]
TsIdle == [pc |-> "idle"]
SegIdle == [pc |-> "idle"]
PrefsIdle == [pc |-> "idle"]

(***************************************************************************)
(* Signals.  An event a thread object emits is recorded in that thread's   *)
(* events (src: "run" for the worker's run(), "cancel" for cancel() called *)
(* on the main thread).  A signal emitted on the worker thread reaches the *)
(* main window through a queued connection: it is appended to queue.       *)
(***************************************************************************)
Event(src, kind, pct, msg) == [src |-> src, kind |-> kind, pct |-> pct, msg |-> msg]

Queued(r, kind, pct, n) == [run |-> r, kind |-> kind, pct |-> pct, n |-> n]

IsRunning(r) == r # 0 /\ thread[r].state = "running"

\* An emit over a blocking connection: it returns only when the main thread's event
\* loop has run the slot, which cannot happen while the main thread is in wait().
EmitProgressBlocking(r, pc, pct, msg, next) ==
    /\ thread[r].state = "running"
    /\ thread[r].pc = pc
    /\ main_pc # "cancel_wait"
    /\ thread' = [thread EXCEPT ![r].events = Append(@, Event("run", "progress", pct, msg)),
                                ![r].pc = next]
    /\ queue' = Append(queue, Queued(r, "progress", pct, 0))
    /\ UNCHANGED <<media_file, audio_file, subtitle_segments, ui, timer_active,
                   transcription_thread, main_pc, tr, fmt, ts, seg, prefs>>

\* The worker of run r, at pc, emits progress_update(pct, msg) and goes to next.
\* The signal is connected across threads, so the emit posts the call and returns.
EmitProgress(r, pc, pct, msg, next) ==
    /\ thread[r].state = "running"
    /\ thread[r].pc = pc
    /\ thread' = [thread EXCEPT ![r].events = Append(@, Event("run", "progress", pct, msg)),
                                ![r].pc = next]
    /\ queue' = Append(queue, Queued(r, "progress", pct, 0))
    /\ UNCHANGED <<media_file, audio_file, subtitle_segments, ui, timer_active,
                   transcription_thread, main_pc, tr, fmt, ts, seg, prefs>>

\* The except clause of run(): error_occurred is emitted and run() returns.
RaiseInRun(r, pc) ==
    /\ thread[r].state = "running"
    /\ thread[r].pc = pc
    /\ thread' = [thread EXCEPT ![r].events = Append(@, Event("run", "error", 0, "Transcription error")),
                                ![r].pc = "done", ![r].state = "finished"]
    /\ queue' = Append(queue, Queued(r, "error", 0, 0))
    /\ UNCHANGED <<media_file, audio_file, subtitle_segments, ui, timer_active,
                   transcription_thread, main_pc, tr, fmt, ts, seg, prefs>>

\* `if self.cancelled: return` at pc; otherwise on to next.
CheckCancelled(r, pc, next) ==
    /\ thread[r].state = "running"
    /\ thread[r].pc = pc
    /\ thread' = IF thread[r].cancelled
                   THEN [thread EXCEPT ![r].pc = "done", ![r].state = "finished"]
                   ELSE [thread EXCEPT ![r].pc = next]
    /\ UNCHANGED <<mainVars, tr, fmt, ts, seg, prefs>>

(***************************************************************************)
(* WhisperTranscriptionThread.run, one action per statement that emits,    *)
(* blocks or reads the cancellation flag.                                  *)
(***************************************************************************)
EmitInit(r) ==
    EmitProgress(r, "start", 5, "Initializing transcription model...", "select_model")

\* _select_model_size emits 15 on both of its branches, before run() emits 10.
SelectModelSize(r) ==
    EmitProgress(r, "select_model", 15, "Using model", "emit_loading")

EmitLoading(r) ==
    EmitProgress(r, "emit_loading", 10, "Loading model...", "load_model")

LoadModel(r) ==
    /\ thread[r].state = "running"
    /\ thread[r].pc = "load_model"
    /\ thread' = [thread EXCEPT ![r].pc = "check_loaded"]
    /\ UNCHANGED <<mainVars, tr, fmt, ts, seg, prefs>>

LoadModelRaises(r) == RaiseInRun(r, "load_model")

CheckAfterLoad(r) == CheckCancelled(r, "check_loaded", "emit_loaded")

EmitLoaded(r) ==
    EmitProgress(r, "emit_loaded", 30, "Model loaded. Starting transcription...", "emit_language")

EmitLanguageMode(r) ==
    EmitProgress(r, "emit_language", 35, "Transcribing", "transcribe")

\* self.model.transcribe returns the raw segments: any number up to the bound.
Transcribe(r) ==
    /\ thread[r].state = "running"
    /\ thread[r].pc = "transcribe"
    /\ \E n \in 0..MaxSegments :
         thread' = [thread EXCEPT ![r].pc = "check_transcribed", ![r].total = n]
    /\ UNCHANGED <<mainVars, tr, fmt, ts, seg, prefs>>

TranscribeRaises(r) == RaiseInRun(r, "transcribe")

CheckAfterTranscribe(r) == CheckCancelled(r, "check_transcribed", "emit_transcribed")

\* A run that announces the end of the transcription with the percentage of the
\* next milestone.
EmitTranscribedAsDetected(r) ==
    EmitProgress(r, "emit_transcribed", 65, "Transcription complete. Processing results...",
                 "emit_detected")

EmitTranscribed(r) ==
    EmitProgress(r, "emit_transcribed", 60, "Transcription complete. Processing results...",
                 "emit_detected")

EmitDetected(r) ==
    EmitProgress(r, "emit_detected", 65, "Detected language", "process_loop")

(***************************************************************************)
(* _process_segments: the loop over the raw segments.  segments counts the *)
(* records appended so far; a cancelled loop returns the empty list.       *)
(***************************************************************************)
ProcessLoopExit(r) ==
    /\ thread[r].state = "running"
    /\ thread[r].pc = "process_loop"
    /\ thread[r].idx = thread[r].total
    /\ thread' = [thread EXCEPT ![r].pc = "check_processed"]
    /\ UNCHANGED <<mainVars, tr, fmt, ts, seg, prefs>>

ProcessCheckCancelled(r) ==
    /\ thread[r].state = "running"
    /\ thread[r].pc = "process_loop"
    /\ thread[r].idx < thread[r].total
    /\ thread' = IF thread[r].cancelled
                   THEN [thread EXCEPT ![r].pc = "check_processed", ![r].segments = 0]
                   ELSE [thread EXCEPT ![r].pc = "process_segment"]
    /\ UNCHANGED <<mainVars, tr, fmt, ts, seg, prefs>>

\* A per-segment progress that counts the segments from 0.
SegmentProgressFromZero(idx, total) == 65 + ((idx * 30) \div total)

\* progress = 65 + int((idx + 1) / total_segments * 30)
SegmentProgress(idx, total) == 65 + (((idx + 1) * 30) \div total)

ProcessSegment(r) ==
    /\ thread[r].state = "running"
    /\ thread[r].pc = "process_segment"
    /\ LET t == thread[r]
           ev == Event("run", "progress", SegmentProgress(t.idx, t.total), "Processing segment")
       IN  /\ thread' = [thread EXCEPT ![r].segments = @ + 1,
                                       ![r].idx = @ + 1,
                                       ![r].pc = "process_loop",
                                       ![r].events = IF t.translate THEN @ ELSE Append(@, ev)]
           /\ queue' = IF t.translate THEN queue
                       ELSE Append(queue, Queued(r, "progress", ev.pct, 0))
    /\ UNCHANGED <<media_file, audio_file, subtitle_segments, ui, timer_active,
                   transcription_thread, main_pc, tr, fmt, ts, seg, prefs>>

ProcessSegmentRaises(r) == RaiseInRun(r, "process_segment")

CheckAfterProcess(r) ==
    CheckCancelled(r, "check_processed",
                   IF thread[r].translate THEN "translate_start" ELSE "emit_100")

(***************************************************************************)
(* _translate_segments: sub-batches of batch_size texts.                   *)
(***************************************************************************)
\* batch_size = max(5, total_texts // 10)
BatchSize(total) == IF total \div 10 > 5 THEN total \div 10 ELSE 5

\* progress = 70 + int(i / total_texts * 25)
BatchProgress(i, total) == 70 + ((i * 25) \div total)

TranslateStart(r) ==
    EmitProgress(r, "translate_start", 70, "Starting translation...", "translate_loop")

TranslateLoopExit(r) ==
    /\ thread[r].state = "running"
    /\ thread[r].pc = "translate_loop"
    /\ thread[r].i >= thread[r].total
    /\ thread' = [thread EXCEPT ![r].pc = "emit_translated"]
    /\ UNCHANGED <<mainVars, tr, fmt, ts, seg, prefs>>

TranslateCheckCancelled(r) ==
    /\ thread[r].state = "running"
    /\ thread[r].pc = "translate_loop"
    /\ thread[r].i < thread[r].total
    /\ thread' = IF thread[r].cancelled
                   THEN [thread EXCEPT ![r].pc = "check_translated", ![r].segments = 0]
                   ELSE [thread EXCEPT ![r].pc = "emit_batch"]
    /\ UNCHANGED <<mainVars, tr, fmt, ts, seg, prefs>>

EmitBatch(r) ==
    EmitProgress(r, "emit_batch", BatchProgress(thread[r].i, thread[r].total),
                 "Translating segments", "translate_batch")

\* TranslationService.translate_batch on the batch: blocks, then the texts are stored.
TranslateBatch(r) ==
    /\ thread[r].state = "running"
    /\ thread[r].pc = "translate_batch"
    /\ thread' = [thread EXCEPT ![r].i = @ + BatchSize(thread[r].total),
                                ![r].pc = "translate_loop"]
    /\ UNCHANGED <<mainVars, tr, fmt, ts, seg, prefs>>

EmitTranslated(r) ==
    EmitProgress(r, "emit_translated", 95, "Translation completed.", "check_translated")

CheckAfterTranslate(r) == CheckCancelled(r, "check_translated", "emit_100")

EmitHundred(r) == EmitProgress(r, "emit_100", 100, "Complete!", "emit_complete")

\* A run that reports its error and then still announces completion.
EmitCompleteAlsoAfterError(r) ==
    /\ thread[r].pc \in {"emit_complete", "done"}
    /\ thread[r].pc = "done" =>
         /\ thread[r].events # << >>
         /\ thread[r].events[Len(thread[r].events)].kind = "error"
    /\ thread' = [thread EXCEPT ![r].events = Append(@, Event("run", "complete", 100, "")),
                                ![r].pc = "done", ![r].state = "finished"]
    /\ queue' = Append(queue, Queued(r, "complete", 100, thread[r].segments))
    /\ UNCHANGED <<media_file, audio_file, subtitle_segments, ui, timer_active,
                   transcription_thread, main_pc, tr, fmt, ts, seg, prefs>>

\* self.transcription_complete.emit(segments); run() returns.
EmitComplete(r) ==
    /\ thread[r].state = "running"
    /\ thread[r].pc = "emit_complete"
    /\ thread' = [thread EXCEPT ![r].events = Append(@, Event("run", "complete", 100, "")),
                                ![r].pc = "done", ![r].state = "finished"]
    /\ queue' = Append(queue, Queued(r, "complete", 100, thread[r].segments))
    /\ UNCHANGED <<media_file, audio_file, subtitle_segments, ui, timer_active,
                   transcription_thread, main_pc, tr, fmt, ts, seg, prefs>>

Worker(r) ==
    \/ EmitInit(r)
    \/ SelectModelSize(r)
    \/ EmitLoading(r)
    \/ LoadModel(r)
    \/ LoadModelRaises(r)
    \/ CheckAfterLoad(r)
    \/ EmitLoaded(r)
    \/ EmitLanguageMode(r)
    \/ Transcribe(r)
    \/ TranscribeRaises(r)
    \/ CheckAfterTranscribe(r)
    \/ EmitTranscribed(r)
    \/ EmitDetected(r)
    \/ ProcessLoopExit(r)
    \/ ProcessCheckCancelled(r)
    \/ ProcessSegment(r)
    \/ ProcessSegmentRaises(r)
    \/ CheckAfterProcess(r)
    \/ TranslateStart(r)
    \/ TranslateLoopExit(r)
    \/ TranslateCheckCancelled(r)
    \/ EmitBatch(r)
    \/ TranslateBatch(r)
    \/ EmitTranslated(r)
    \/ CheckAfterTranslate(r)
    \/ EmitHundred(r)
    \/ EmitComplete(r)

(***************************************************************************)
(* The main window.  Every handler runs on the main thread, one at a time. *)
(***************************************************************************)
\* An error handler that forgets to bring the Generate button back.
ResetUiKeepsCancel(u) ==
    [u EXCEPT !.progress_visible = FALSE,
              !.progress_value = 0,
              !.generate_enabled = (media_file # "none")]

\* reset_ui
ResetUi(u) ==
    [u EXCEPT !.progress_visible = FALSE,
              !.progress_value = 0,
              !.generate_visible = TRUE,
              !.cancel_visible = FALSE,
              !.generate_enabled = (media_file # "none")]

Unborn == {r \in DOMAIN thread : thread[r].state = "unborn"}

\* process_selected_file (browse_files, handle_file_drop)
SelectFile ==
    /\ main_pc = "loop"
    /\ \E f \in {"audio", "video"} : media_file' = f
    /\ ui' = [ui EXCEPT !.generate_enabled = TRUE]
    /\ UNCHANGED <<audio_file, subtitle_segments, timer_active, transcription_thread,
                   main_pc, queue, thread, tr, fmt, ts, seg, prefs>>

\* A generate_subtitles that shows Cancel but leaves Generate where it is.
GenerateUiLeavesGenerate(u) ==
    [u EXCEPT !.progress_visible = TRUE,
              !.progress_value = 0,
              !.cancel_visible = TRUE,
              !.save_enabled = FALSE,
              !.embed_enabled = FALSE,
              !.editor_visible = FALSE]

\* The widgets generate_subtitles sets before it calls extract_audio.
GenerateUi(u) ==
    [u EXCEPT !.progress_visible = TRUE,
              !.progress_value = 0,
              !.generate_visible = FALSE,
              !.cancel_visible = TRUE,
              !.save_enabled = FALSE,
              !.embed_enabled = FALSE,
              !.editor_visible = FALSE]

\* start_transcription: a new WhisperTranscriptionThread is created and started.
\* Binding self.transcription_thread to the new object drops the last reference to a
\* finished one: nothing of it but "finished" is kept.
StartedThread(r, translate) ==
    [x \in DOMAIN thread |->
        IF x = r THEN [NoThread EXCEPT !.state = "running", !.translate = translate]
        ELSE IF thread[x].state = "finished"
             THEN [NoThread EXCEPT !.state = "finished", !.pc = "done"]
             ELSE thread[x]]

\* How extract_audio ends: the file has an audio extension and the media tool is not
\* called; the tool exits with status 0; the tool exits with another status or the
\* call raises.
ExtractOutcomes == {"is_audio", "extracted", "failed"}

\* An extract_audio that stores the output path before it looks at the exit status.
ExtractAudioSetsPathFirst(outcome, r) ==
    \/ /\ outcome = "is_audio"
       /\ media_file = "audio"
       /\ audio_file' = "media"
       /\ ui' = GenerateUi(ui)
       /\ transcription_thread' = r
       /\ \E translate \in BOOLEAN : thread' = StartedThread(r, translate)
    \/ /\ outcome = "extracted"
       /\ media_file = "video"
       /\ audio_file' = "extracted"
       /\ ui' = [GenerateUi(ui) EXCEPT !.progress_value = 5]
       /\ transcription_thread' = r
       /\ \E translate \in BOOLEAN : thread' = StartedThread(r, translate)
    \/ /\ outcome = "failed"
       /\ media_file = "video"
       /\ audio_file' = "extracted"
       /\ ui' = ResetUi([GenerateUi(ui) EXCEPT !.progress_value = 5])
       /\ UNCHANGED <<transcription_thread, thread>>

\* extract_audio, with start_transcription, which it calls on success; r is the
\* worker start_transcription would create.
ExtractAudio(outcome, r) ==
    \/ /\ outcome = "is_audio"
       /\ media_file = "audio"
       /\ audio_file' = "media"
       /\ ui' = GenerateUi(ui)
       /\ transcription_thread' = r
       /\ \E translate \in BOOLEAN : thread' = StartedThread(r, translate)
    \/ /\ outcome = "extracted"
       /\ media_file = "video"
       /\ audio_file' = "extracted"
       /\ ui' = [GenerateUi(ui) EXCEPT !.progress_value = 5]
       /\ transcription_thread' = r
       /\ \E translate \in BOOLEAN : thread' = StartedThread(r, translate)
    \/ /\ outcome = "failed"
       /\ media_file = "video"
       /\ ui' = ResetUi([GenerateUi(ui) EXCEPT !.progress_value = 5])
       /\ UNCHANGED <<audio_file, transcription_thread, thread>>

\* generate_subtitles when extract_audio ends with outcome.
\* The Generate button is the only way in, so the click needs it visible and enabled.
GenerateSubtitlesWith(outcome) ==
    /\ main_pc = "loop"
    /\ ui.generate_visible /\ ui.generate_enabled
    /\ media_file # "none"
    /\ Unborn # {}
    /\ timer_active' = TRUE
    /\ ExtractAudio(outcome, CHOOSE x \in Unborn : \A y \in Unborn : x <= y)
    /\ UNCHANGED <<media_file, subtitle_segments, main_pc, queue, tr, fmt, ts, seg, prefs>>

\* generate_subtitles, with extract_audio and start_transcription, which it calls.
GenerateSubtitles == \E outcome \in ExtractOutcomes : GenerateSubtitlesWith(outcome)

\* The event loop may dispatch the oldest queued signal whenever the main thread is
\* in the loop: at top level, or inside the processEvents() that update_progress
\* calls when cancel() emits its progress signal directly.
CanDispatch(kind) ==
    /\ main_pc \in {"loop", "cancel_processEvents"}
    /\ queue # << >>
    /\ Head(queue).kind = kind

\* update_progress
DeliverProgress ==
    /\ CanDispatch("progress")
    /\ ui' = [ui EXCEPT !.progress_value = Head(queue).pct]
    /\ queue' = Tail(queue)
    /\ UNCHANGED <<media_file, audio_file, subtitle_segments, timer_active,
                   transcription_thread, main_pc, thread, tr, fmt, ts, seg, prefs>>

\* handle_transcription_complete
DeliverComplete ==
    /\ CanDispatch("complete")
    /\ timer_active' = FALSE
    /\ subtitle_segments' = Head(queue).n
    /\ ui' = [ui EXCEPT !.editor_visible = TRUE,
                        !.save_enabled = TRUE,
                        !.embed_enabled = IF media_file = "video" THEN TRUE ELSE @,
                        !.generate_visible = TRUE,
                        !.cancel_visible = FALSE,
                        !.generate_enabled = TRUE,
                        !.progress_visible = FALSE]
    /\ queue' = Tail(queue)
    /\ UNCHANGED <<media_file, audio_file, transcription_thread, main_pc, thread,
                   tr, fmt, ts, seg, prefs>>

\* handle_transcription_error
DeliverError ==
    /\ CanDispatch("error")
    /\ timer_active' = FALSE
    /\ ui' = ResetUi(ui)
    /\ queue' = Tail(queue)
    /\ UNCHANGED <<media_file, audio_file, subtitle_segments, transcription_thread,
                   main_pc, thread, tr, fmt, ts, seg, prefs>>

\* WhisperTranscriptionThread.cancel, called on the main thread: the flag, then the
\* progress signal, which reaches update_progress(0, ...) directly.
Cancel(r) ==
    [thread EXCEPT ![r].cancelled = TRUE,
                   ![r].events = Append(@, Event("cancel", "progress", 0, "Cancelling operation..."))]

\* cancel_generation up to thread.wait(): the Cancel button is the only way in.
CancelGeneration ==
    /\ main_pc = "loop"
    /\ ui.cancel_visible
    /\ IF IsRunning(transcription_thread)
         THEN /\ thread' = Cancel(transcription_thread)
              /\ ui' = [ui EXCEPT !.progress_value = 0]
              /\ main_pc' = "cancel_processEvents"
              /\ UNCHANGED timer_active
         ELSE /\ timer_active' = FALSE
              /\ ui' = ResetUi(ui)
              /\ UNCHANGED <<thread, main_pc>>
    /\ UNCHANGED <<media_file, audio_file, subtitle_segments, transcription_thread,
                   queue, tr, fmt, ts, seg, prefs>>

\* processEvents() returns and cancel_generation blocks in thread.wait().
CancelWait ==
    /\ main_pc = "cancel_processEvents"
    /\ main_pc' = "cancel_wait"
    /\ UNCHANGED <<media_file, audio_file, subtitle_segments, ui, timer_active,
                   transcription_thread, queue, thread, tr, fmt, ts, seg, prefs>>

\* wait() returns once the worker has finished; the rest of cancel_generation.
CancelFinish ==
    /\ main_pc = "cancel_wait"
    /\ ~IsRunning(transcription_thread)
    /\ timer_active' = FALSE
    /\ ui' = ResetUi(ui)
    /\ main_pc' = "loop"
    /\ UNCHANGED <<media_file, audio_file, subtitle_segments, transcription_thread,
                   queue, thread, tr, fmt, ts, seg, prefs>>

Init ==
    /\ MainInit
    /\ tr = TrIdle
    /\ fmt = FmtIdle
    /\ ts = TsIdle
    /\ seg = SegIdle
    /\ prefs = PrefsIdle

Next ==
    \/ SelectFile
    \/ GenerateSubtitles
    \/ DeliverProgress
    \/ DeliverComplete
    \/ DeliverError
    \/ CancelGeneration
    \/ CancelWait
    \/ CancelFinish
    \/ \E r \in DOMAIN thread : Worker(r)

Spec == Init /\ [][Next]_vars

(***************************************************************************)
(* SpecFair: Spec with the scheduling the program relies on.  A started    *)
(* QThread is scheduled by the operating system and every call it makes    *)
(* returns or raises (model load, transcription, HTTP request with its     *)
(* timeout), so a worker that can take a step takes one; processEvents()   *)
(* returns once the pending events are handled, and wait() returns once    *)
(* the worker has finished; the event loop dispatches a posted signal when *)
(* the main thread is in it (a message box it opens is dismissed).         *)
(***************************************************************************)
SpecFair ==
    /\ Init
    /\ [][Next]_vars
    /\ \A r \in Runs : WF_vars(Worker(r))
    /\ WF_vars(CancelWait)
    /\ WF_vars(CancelFinish)
    /\ WF_vars(DeliverProgress)
    /\ WF_vars(DeliverComplete)
    /\ WF_vars(DeliverError)

(***************************************************************************)
(* SpecRuns: the same window and workers over several runs.  A behaviour   *)
(* is followed until its MaxStarts-th worker thread has been started.      *)
(***************************************************************************)
MaxStarts == 3        \* worker threads started in one behaviour of SpecRuns

InitRuns ==
    /\ WindowInit
    /\ thread = [r \in 1..MaxStarts |-> NoThread]
    /\ tr = TrIdle
    /\ fmt = FmtIdle
    /\ ts = TsIdle
    /\ seg = SegIdle
    /\ prefs = PrefsIdle

\* generate_subtitles can still start a worker thread in this behaviour.
MoreStarts == \E r \in DOMAIN thread : thread[r].state = "unborn"

NextRuns ==
    \/ MoreStarts /\ SelectFile
    \/ MoreStarts /\ GenerateSubtitles
    \/ MoreStarts /\ DeliverProgress
    \/ MoreStarts /\ DeliverComplete
    \/ MoreStarts /\ DeliverError
    \/ MoreStarts /\ CancelGeneration
    \/ MoreStarts /\ CancelWait
    \/ MoreStarts /\ CancelFinish
    \/ MoreStarts /\ \E r \in DOMAIN thread : EmitInit(r)
    \/ MoreStarts /\ \E r \in DOMAIN thread : SelectModelSize(r)
    \/ MoreStarts /\ \E r \in DOMAIN thread : EmitLoading(r)
    \/ MoreStarts /\ \E r \in DOMAIN thread : LoadModel(r)
    \/ MoreStarts /\ \E r \in DOMAIN thread : LoadModelRaises(r)
    \/ MoreStarts /\ \E r \in DOMAIN thread : CheckAfterLoad(r)
    \/ MoreStarts /\ \E r \in DOMAIN thread : EmitLoaded(r)
    \/ MoreStarts /\ \E r \in DOMAIN thread : EmitLanguageMode(r)
    \/ MoreStarts /\ \E r \in DOMAIN thread : Transcribe(r)
    \/ MoreStarts /\ \E r \in DOMAIN thread : TranscribeRaises(r)
    \/ MoreStarts /\ \E r \in DOMAIN thread : CheckAfterTranscribe(r)
    \/ MoreStarts /\ \E r \in DOMAIN thread : EmitTranscribed(r)
    \/ MoreStarts /\ \E r \in DOMAIN thread : EmitDetected(r)
    \/ MoreStarts /\ \E r \in DOMAIN thread : ProcessLoopExit(r)
    \/ MoreStarts /\ \E r \in DOMAIN thread : ProcessCheckCancelled(r)
    \/ MoreStarts /\ \E r \in DOMAIN thread : ProcessSegment(r)
    \/ MoreStarts /\ \E r \in DOMAIN thread : ProcessSegmentRaises(r)
    \/ MoreStarts /\ \E r \in DOMAIN thread : CheckAfterProcess(r)
    \/ MoreStarts /\ \E r \in DOMAIN thread : TranslateStart(r)
    \/ MoreStarts /\ \E r \in DOMAIN thread : TranslateLoopExit(r)
    \/ MoreStarts /\ \E r \in DOMAIN thread : TranslateCheckCancelled(r)
    \/ MoreStarts /\ \E r \in DOMAIN thread : EmitBatch(r)
    \/ MoreStarts /\ \E r \in DOMAIN thread : TranslateBatch(r)
    \/ MoreStarts /\ \E r \in DOMAIN thread : EmitTranslated(r)
    \/ MoreStarts /\ \E r \in DOMAIN thread : CheckAfterTranslate(r)
    \/ MoreStarts /\ \E r \in DOMAIN thread : EmitHundred(r)
    \/ MoreStarts /\ \E r \in DOMAIN thread : EmitComplete(r)

SpecRuns == InitRuns /\ [][NextRuns]_vars

(***************************************************************************)
(* TranslationService.  A text is a sequence of characters.  What an       *)
(* endpoint answers to one request is one of:                              *)
(*   "timeout"   requests.post raises a RequestException                   *)
(*   "non200"    a status other than 200                                   *)
(*   "not_json"  status 200, the body is not JSON: response.json() raises  *)
(*               requests.exceptions.JSONDecodeError (a RequestException)  *)
(*               with requests >= 2.27 and a plain ValueError before that; *)
(*               setup.py asks for any "requests", so both builds exist    *)
(*   "no_field"  status 200, a JSON object without "translatedText"        *)
(*   "json_null" status 200, the JSON value null: `in` raises TypeError    *)
(*   "ok"        status 200, a JSON object with "translatedText"           *)
(***************************************************************************)
SERVERS ==
    <<"https://translate.argosopentech.com", "https://libretranslate.de",
      "https://translate.terraprint.co", "https://lt.vern.cc">>

Outcomes == {"timeout", "non200", "not_json", "no_field", "json_null", "ok"}

Whitespace == {" ", "\n", "\t"}

\* not text.strip()
IsBlank(text) == \A k \in 1..Len(text) : text[k] \in Whitespace

\* The "translatedText" the endpoint `server` answers for `text`.
Translated(server, text) == <<server>> \o text

Returned(value, contacted) == [raised |-> "none", value |-> value, contacted |-> contacted]
Raised(exc, contacted) == [raised |-> exc, value |-> << >>, contacted |-> contacted]

\* The for loop of translate_text from endpoint k on; oc[k] is what endpoint k
\* answers, old_requests whether response.json() raises a plain ValueError.
RECURSIVE TryServers(_, _, _, _, _)
TryServers(k, text, oc, old_requests, contacted) ==
    IF k > Len(SERVERS) THEN Returned(text, contacted)
    ELSE LET c == Append(contacted, SERVERS[k])
         IN  CASE oc[k] = "ok" -> Returned(Translated(SERVERS[k], text), c)
               [] oc[k] = "json_null" -> Raised("TypeError", c)
               [] oc[k] = "not_json" /\ old_requests -> Raised("ValueError", c)
               [] OTHER -> TryServers(k + 1, text, oc, old_requests, c)

\* translate_text
TranslateText(text, oc, old_requests) ==
    IF IsBlank(text) THEN Returned(text, << >>)
    ELSE TryServers(1, text, oc, old_requests, << >>)

(***************************************************************************)
(* translate_batch.  A pool task is submitted for every non-blank text;    *)
(* the pool starts tasks in submission order, at most max_workers at once; *)
(* as_completed hands the finished futures over in any order.              *)
(***************************************************************************)
MaxTexts == 3         \* texts in one translate_batch call
MaxWorkers == 2       \* max_workers ranges over 1..MaxWorkers

\* The texts a call is tried on: empty, whitespace only, and two that differ.
Texts == {<< >>, <<" ">>, <<"a">>, <<" ", "b">>}

\* What the endpoints answer to the request of one pool task: the second endpoint
\* translates, every endpoint fails, or the task raises.
TaskOutcomes ==
    {<<"non200", "ok", "ok", "ok">>,
     <<"timeout", "timeout", "timeout", "timeout">>,
     <<"json_null", "ok", "ok", "ok">>}

SeqsUpTo(S, n) == UNION {[1..m -> S] : m \in 0..n}

\* texts_to_translate, as the indices kept
ToTranslate(texts) == {i \in 1..Len(texts) : ~IsBlank(texts[i])}

\* A store that uses the task's position among the submitted texts, not its index.
StoreResultAtSubmitPosition(results, index, value) ==
    [results EXCEPT ![Cardinality({i \in ToTranslate(results) : i <= index})] = value]

\* results[index] = translated_text
StoreResult(results, index, value) == [results EXCEPT ![index] = value]

\* A translate_batch call before its first statement.
BatchCall(texts, oc, old, w) ==
    [pc |-> "batch_call", texts |-> texts, oc |-> oc, old_requests |-> old,
     max_workers |-> w, results |-> texts, submitted |-> {}, waiting |-> {},
     in_flight |-> {}, futures |-> << >>, completed |-> {}, max_in_flight |-> 0,
     returned |-> << >>]

TrInit ==
    \/ \E text \in Texts, oc \in [1..Len(SERVERS) -> Outcomes], old \in BOOLEAN :
         tr = [pc |-> "text_call", text |-> text, oc |-> oc, old_requests |-> old]
    \/ \E texts \in SeqsUpTo(Texts, MaxTexts), w \in 1..MaxWorkers, old \in BOOLEAN :
         \E oc \in [1..Len(texts) -> TaskOutcomes] :
            /\ \A i \in 1..Len(texts) :
                 IsBlank(texts[i]) => oc[i] = <<"timeout", "timeout", "timeout", "timeout">>
            /\ tr = BatchCall(texts, oc, old, w)

\* One call of translate_text.
TranslateTextCall ==
    /\ tr.pc = "text_call"
    /\ tr' = [pc |-> "text_done", text |-> tr.text, oc |-> tr.oc,
              old_requests |-> tr.old_requests,
              result |-> TranslateText(tr.text, tr.oc, tr.old_requests)]
    /\ UNCHANGED <<runVars, fmt, ts, seg, prefs>>

\* translate_batch with nothing to translate: the list itself is returned.
BatchNothingToTranslate ==
    /\ tr.pc = "batch_call"
    /\ ToTranslate(tr.texts) = {}
    /\ tr' = [tr EXCEPT !.pc = "batch_done", !.returned = tr.texts]
    /\ UNCHANGED <<runVars, fmt, ts, seg, prefs>>

\* The copy of the list, the pool and the submission of every task.
BatchSubmit ==
    /\ tr.pc = "batch_call"
    /\ ToTranslate(tr.texts) # {}
    /\ tr' = [tr EXCEPT !.pc = "batch_pool",
                        !.results = tr.texts,
                        !.submitted = ToTranslate(tr.texts),
                        !.waiting = ToTranslate(tr.texts),
                        !.futures = [i \in 1..Len(tr.texts) |-> Returned(<< >>, << >>)]]
    /\ UNCHANGED <<runVars, fmt, ts, seg, prefs>>

\* A pool that starts a thread for every waiting task.
TaskStartNoLimit ==
    /\ tr.pc = "batch_pool"
    /\ tr.waiting # {}
    /\ LET i == CHOOSE x \in tr.waiting : \A y \in tr.waiting : x <= y
           now == tr.in_flight \cup {i}
       IN  tr' = [tr EXCEPT !.waiting = @ \ {i}, !.in_flight = now,
                            !.max_in_flight = IF Cardinality(now) > @
                                              THEN Cardinality(now) ELSE @]
    /\ UNCHANGED <<runVars, fmt, ts, seg, prefs>>

\* A free pool thread takes the oldest waiting task and calls translate_text.
TaskStart ==
    /\ tr.pc = "batch_pool"
    /\ tr.waiting # {}
    /\ Cardinality(tr.in_flight) < tr.max_workers
    /\ LET i == CHOOSE x \in tr.waiting : \A y \in tr.waiting : x <= y
           now == tr.in_flight \cup {i}
       IN  tr' = [tr EXCEPT !.waiting = @ \ {i}, !.in_flight = now,
                            !.max_in_flight = IF Cardinality(now) > @
                                              THEN Cardinality(now) ELSE @]
    /\ UNCHANGED <<runVars, fmt, ts, seg, prefs>>

\* A task's translate_text call ends (it returns or raises): its future is done.
TaskFinish ==
    /\ tr.pc = "batch_pool"
    /\ \E i \in tr.in_flight :
         tr' = [tr EXCEPT !.in_flight = @ \ {i},
                          !.completed = @ \cup {i},
                          !.futures[i] = TranslateText(tr.texts[i], tr.oc[i], tr.old_requests)]
    /\ UNCHANGED <<runVars, fmt, ts, seg, prefs>>

\* One round of the as_completed loop: future.result() is stored, or it raises
\* and the text is left as it is.
BatchCollect ==
    /\ tr.pc = "batch_pool"
    /\ \E i \in tr.completed :
         tr' = [tr EXCEPT !.completed = @ \ {i},
                          !.results = IF tr.futures[i].raised = "none"
                                      THEN StoreResult(@, i, tr.futures[i].value) ELSE @]
    /\ UNCHANGED <<runVars, fmt, ts, seg, prefs>>

\* Every future has been handed over: the pool is shut down and results returned.
BatchReturn ==
    /\ tr.pc = "batch_pool"
    /\ tr.waiting = {} /\ tr.in_flight = {} /\ tr.completed = {}
    /\ tr' = [tr EXCEPT !.pc = "batch_done", !.returned = tr.results]
    /\ UNCHANGED <<runVars, fmt, ts, seg, prefs>>

InitTranslate ==
    /\ MainInit
    /\ TrInit
    /\ fmt = FmtIdle
    /\ ts = TsIdle
    /\ seg = SegIdle
    /\ prefs = PrefsIdle

NextTranslate ==
    \/ TranslateTextCall
    \/ BatchNothingToTranslate
    \/ BatchSubmit
    \/ TaskStart
    \/ TaskFinish
    \/ BatchCollect
    \/ BatchReturn

SpecTranslate == InitTranslate /\ [][NextTranslate]_vars

(***************************************************************************)
(* Subtitle text.  A string is a sequence of characters; the operators     *)
(* below are Python's str methods as the code uses them.                   *)
(***************************************************************************)
NL == "\n"

\* "".join(parts): the concatenation of a sequence of strings
RECURSIVE Concat(_)
Concat(parts) == IF parts = << >> THEN << >> ELSE Head(parts) \o Concat(Tail(parts))

\* sep.join(parts)
RECURSIVE Join(_, _)
Join(parts, sep) ==
    IF parts = << >> THEN << >>
    ELSE IF Len(parts) = 1 THEN parts[1]
    ELSE parts[1] \o sep \o Join(Tail(parts), sep)

\* s.split(sep) for a non-empty sep: the pieces between the occurrences of sep,
\* found from the left without overlap.
RECURSIVE Split(_, _)
Split(s, sep) ==
    LET hits == {p \in 1..(Len(s) - Len(sep) + 1) : SubSeq(s, p, p + Len(sep) - 1) = sep}
    IN  IF hits = {} THEN <<s>>
        ELSE LET p == CHOOSE x \in hits : \A y \in hits : x <= y
             IN  <<SubSeq(s, 1, p - 1)>> \o Split(SubSeq(s, p + Len(sep), Len(s)), sep)

\* s.replace(old, new) for one-character old and new
Replace(s, old, new) == [k \in 1..Len(s) |-> IF s[k] = old THEN new ELSE s[k]]

\* str(n) for n >= 0
Digits == <<"0", "1", "2", "3", "4", "5", "6", "7", "8", "9">>

RECURSIVE IntToStr(_)
IntToStr(n) ==
    IF n < 10 THEN <<Digits[n + 1]>> ELSE Append(IntToStr(n \div 10), Digits[(n % 10) + 1])

Arrow == <<" ", "-", "-", ">", " ">>

\* A serializer that numbers the blocks from 0.
SrtBlockZeroBased(idx, segment) ==
    IntToStr(idx - 1) \o <<NL>> \o segment.start \o Arrow \o segment.end \o <<NL>>
        \o segment.text \o <<NL, NL>>

\* f"{idx}\n{segment['start']} --> {segment['end']}\n{segment['text']}\n\n"
SrtBlock(idx, segment) ==
    IntToStr(idx) \o <<NL>> \o segment.start \o Arrow \o segment.end \o <<NL>>
        \o segment.text \o <<NL, NL>>

\* A get_segments that lists the newest widget first.
GetSegmentsNewestFirst(widgets) ==
    [k \in 1..Len(widgets) |->
        [start |-> widgets[Len(widgets) + 1 - k].start,
         end |-> widgets[Len(widgets) + 1 - k].end,
         text |-> widgets[Len(widgets) + 1 - k].text]]

\* SubtitleEditor.get_segments: the widgets' start, end and current text, in order
GetSegments(widgets) ==
    [k \in 1..Len(widgets) |->
        [start |-> widgets[k].start, end |-> widgets[k].end, text |-> widgets[k].text]]

\* SubtitleEditor.get_srt_content
GetSrtContent(widgets) ==
    LET segments == GetSegments(widgets)
    IN  Concat([idx \in 1..Len(segments) |-> SrtBlock(idx, segments[idx])])

\* The preview text handle_transcription_complete builds from the segments
PreviewText(segments) ==
    Concat([i \in 1..Len(segments) |-> SrtBlock(i, segments[i])])

VttHeader == <<"W", "E", "B", "V", "T", "T", NL, NL>>

\* The body of save_srt_to_vtt's loop for one block: what it adds to vtt_content
VttOfBlock(block) ==
    IF IsBlank(block) THEN << >>
    ELSE LET lines == Split(block, <<NL>>)
         IN  IF Len(lines) >= 3
               THEN Replace(lines[2], ",", ".") \o <<NL>>
                        \o Join(SubSeq(lines, 3, Len(lines)), <<NL>>) \o <<NL, NL>>
               ELSE << >>

\* save_srt_to_vtt
SaveSrtToVtt(srt_content) ==
    LET srt_blocks == Split(srt_content, <<NL, NL>>)
    IN  VttHeader \o Concat([k \in 1..Len(srt_blocks) |-> VttOfBlock(srt_blocks[k])])

\* The segment editor: what set_segments put there, with the user's text edits.
MaxFmtSegments == 2   \* segments of an editor whose texts vary
MaxLongList == 11     \* segments of the longest editor (two-digit indices)

T1 == <<"0", "0", ":", "0", "0", ":", "0", "1", ",", "0", "0", "0">>
T2 == <<"0", "0", ":", "0", "0", ":", "0", "3", ",", "0", "0", "0">>
T3 == <<"0", "0", ":", "0", "0", ":", "0", "4", ",", "5", "0", "0">>

\* Texts a segment can hold: empty, one line, with a comma, two lines.
FmtTexts == {<< >>, <<"H", "i">>, <<"a", ",", "b">>, <<"a", NL, "b">>}

FmtSegments ==
    {[start |-> T1, end |-> T2, text |-> x] : x \in FmtTexts}
        \cup {[start |-> T2, end |-> T3, text |-> x] : x \in FmtTexts}

ExampleSegment == [start |-> T1, end |-> T2, text |-> <<"H", "i">>]

Editors ==
    SeqsUpTo(FmtSegments, MaxFmtSegments)
        \cup {[k \in 1..n |-> ExampleSegment] : n \in 1..MaxLongList}

\* set_segments: one SegmentItem per segment, in order, holding its start, end and text.
SetSegments(segments) ==
    [k \in 1..Len(segments) |->
        [start |-> segments[k].start, end |-> segments[k].end, text |-> segments[k].text]]

\* set is the list set_segments was called with.
FmtInit ==
    \E w \in Editors :
        fmt = [pc |-> "editor", set |-> w, widgets |-> SetSegments(w),
               srt |-> << >>, vtt |-> << >>]

\* SegmentItem.on_text_changed: the user edits the text of one segment.
EditText ==
    /\ fmt.pc = "editor"
    /\ Len(fmt.widgets) <= MaxFmtSegments
    /\ \E k \in 1..Len(fmt.widgets), x \in FmtTexts :
         fmt' = [fmt EXCEPT !.widgets[k].text = x]
    /\ UNCHANGED <<runVars, tr, ts, seg, prefs>>

\* save_subtitles(".srt") with the segment editor visible
SaveSrt ==
    /\ fmt.pc = "editor"
    /\ fmt' = [fmt EXCEPT !.pc = "srt", !.srt = GetSrtContent(fmt.widgets)]
    /\ UNCHANGED <<runVars, tr, ts, seg, prefs>>

\* save_subtitles(".vtt") with the segment editor visible
SaveVtt ==
    /\ fmt.pc = "editor"
    /\ LET srt_content == GetSrtContent(fmt.widgets)
       IN  fmt' = [fmt EXCEPT !.pc = "vtt", !.srt = srt_content,
                              !.vtt = SaveSrtToVtt(srt_content)]
    /\ UNCHANGED <<runVars, tr, ts, seg, prefs>>

InitFormat ==
    /\ MainInit
    /\ tr = TrIdle
    /\ FmtInit
    /\ ts = TsIdle
    /\ seg = SegIdle
    /\ prefs = PrefsIdle

NextFormat ==
    \/ EditText
    \/ SaveSrt
    \/ SaveVtt

SpecFormat == InitFormat /\ [][NextFormat]_vars

(***************************************************************************)
(* validate_timestamp.  None is [ok |-> FALSE].                            *)
(***************************************************************************)
None == [ok |-> FALSE, value |-> << >>]
Some(v) == [ok |-> TRUE, value |-> v]

\* s.strip()
RECURSIVE LStrip(_)
LStrip(s) == IF s # << >> /\ Head(s) \in Whitespace THEN LStrip(Tail(s)) ELSE s

RECURSIVE RStrip(_)
RStrip(s) ==
    IF s # << >> /\ s[Len(s)] \in Whitespace THEN RStrip(SubSeq(s, 1, Len(s) - 1)) ELSE s

Strip(s) == RStrip(LStrip(s))

DigitValue(c) == CHOOSE d \in 0..9 : Digits[d + 1] = c

IsDigits(s) == s # << >> /\ \A k \in 1..Len(s) : \E d \in 1..10 : Digits[d] = s[k]

RECURSIVE Decimal(_)
Decimal(s) ==
    IF s = << >> THEN 0 ELSE 10 * Decimal(SubSeq(s, 1, Len(s) - 1)) + DigitValue(s[Len(s)])

\* int(s): blanks around, an optional sign, decimal digits; anything else is a
\* ValueError, which is None here.
ParseInt(s) ==
    LET t == Strip(s)
        signed == t # << >> /\ t[1] \in {"+", "-"}
        body == IF signed THEN Tail(t) ELSE t
    IN  IF ~IsDigits(body) THEN None
        ELSE Some(IF signed /\ t[1] = "-" THEN 0 - Decimal(body) ELSE Decimal(body))

\* A formatter that does not pad.
PadNone(n) == IntToStr(n)

\* f"{n:02d}" for n >= 0
Pad2(n) == IF n < 10 THEN <<"0">> \o IntToStr(n) ELSE IntToStr(n)

\* s.ljust(3, "0")[:3]
Millis(s) == SubSeq(s \o <<"0", "0", "0">>, 1, 3)

Contains(s, c) == \E k \in 1..Len(s) : s[k] = c

ValidateTimestamp(timestamp_str) ==
    LET parts == Split(timestamp_str, <<":">>)
    IN  IF Len(parts) # 3 THEN None
        ELSE
        LET hours == ParseInt(parts[1])
            minutes == ParseInt(parts[2])
            seconds_parts == Split(Replace(parts[3], ",", "."), <<".">>)
            seconds == ParseInt(seconds_parts[1])
            milliseconds ==
                IF Contains(parts[3], ",") THEN Millis(Split(parts[3], <<",">>)[2])
                ELSE IF Contains(parts[3], ".") THEN Millis(Split(parts[3], <<".">>)[2])
                ELSE <<"0", "0", "0">>
        IN  IF ~hours.ok \/ ~minutes.ok \/ ~seconds.ok THEN None
            ELSE IF ~(0 <= hours.value /\ 0 <= minutes.value /\ minutes.value < 60
                      /\ 0 <= seconds.value /\ seconds.value < 60) THEN None
            ELSE Some(Pad2(hours.value) \o <<":">> \o Pad2(minutes.value) \o <<":">>
                      \o Pad2(seconds.value) \o <<",">> \o milliseconds)

\* The strings validate_timestamp is tried on: hours ":" minutes ":" seconds and
\* fraction, each field from the sets below, and strings with other than 3 parts.
HourFields ==
    {<<"0">>,
     <<"1">>,
     <<"0", "0">>,
     <<"0", "1">>,
     <<"1", "2">>,
     <<"1", "0", "0">>,
     <<"-", "1">>,
     <<"+", "1">>,
     <<" ", "1">>,
     <<"a">>,
     <<>>}
MinuteFields ==
    {<<"2">>,
     <<"0", "2">>,
     <<"5", "9">>,
     <<"6", "0">>,
     <<"-", "0">>,
     <<"x">>}
SecondFields ==
    {<<"3">>,
     <<"0", "3">>,
     <<"5", "9">>,
     <<"6", "0">>,
     <<>>}
Fractions ==
    {<<>>,
     <<",">>,
     <<".">>,
     <<",", "5">>,
     <<".", "5">>,
     <<",", "0", "0", "0">>,
     <<",", "5", "0", "0">>,
     <<".", "5", "0", "0">>,
     <<",", "1", "2", "3", "4">>,
     <<",", "5", "x">>,
     <<",", "5", ".", "7">>,
     <<".", "5", ",", "7">>}
OtherInputs ==
    {<<"b", "a", "d">>,
     <<>>,
     <<"1", ":", "2">>,
     <<"1", ":", "2", ":", "3", ":", "4">>,
     <<"0", "1", ":", "0", "2", ":", "0", "3", ",", "5", "0", "0", ":">>}

TimestampInputs ==
    {h \o <<":">> \o m \o <<":">> \o sec \o f :
        h \in HourFields, m \in MinuteFields, sec \in SecondFields, f \in Fractions}
    \cup OtherInputs

TsInit == \E t \in TimestampInputs : ts = [pc |-> "input", t |-> t, out |-> None, again |-> None]

\* validate_timestamp(t)
ValidateCall ==
    /\ ts.pc = "input"
    /\ ts' = [ts EXCEPT !.pc = "once", !.out = ValidateTimestamp(ts.t)]
    /\ UNCHANGED <<runVars, tr, fmt, seg, prefs>>

\* validate_timestamp on its own result
ValidateOutput ==
    /\ ts.pc = "once"
    /\ ts.out.ok
    /\ ts' = [ts EXCEPT !.pc = "twice", !.again = ValidateTimestamp(ts.out.value)]
    /\ UNCHANGED <<runVars, tr, fmt, seg, prefs>>

InitTimestamp ==
    /\ MainInit
    /\ tr = TrIdle
    /\ fmt = FmtIdle
    /\ TsInit
    /\ seg = SegIdle
    /\ prefs = PrefsIdle

NextTimestamp ==
    \/ ValidateCall
    \/ ValidateOutput

SpecTimestamp == InitTimestamp /\ [][NextTimestamp]_vars

(***************************************************************************)
(* _process_segments, _translate_segments and calculate_reading_speed on   *)
(* segment lists with their contents (SpecSegments).  The worker is not    *)
(* cancelled here: the cancellation points are those of Spec.              *)
(***************************************************************************)
MaxRawSegments == 11   \* raw segments in the list the speech model returns

\* A raw time, as timedelta(seconds=x) holds it: whole seconds and microseconds.
Time(sec, us) == [sec |-> sec, us |-> us]

\* Raw times in chronological order: whole seconds, fractions, over ten hours, over a day.
Times ==
    << Time(0, 0), Time(1, 0), Time(1, 500000), Time(2, 1000), Time(3, 250000),
       Time(59, 999000), Time(60, 0), Time(61, 250000), Time(3599, 999999),
       Time(3600, 0), Time(3661, 500000), Time(36000, 500000), Time(36061, 0),
       Time(86399, 999000), Time(86400, 500000), Time(90000, 250000), Time(90001, 0) >>

\* Where in Times a raw list starts.
Shifts == {0, 2, 4}

\* "%06d" % n
Pad6(n) ==
    LET d == IntToStr(n)
    IN  [k \in 1..(6 - Len(d)) |-> "0"] \o d

\* str(timedelta): "%d:%02d:%02d", days in front when there are any, ".%06d" behind
\* when there are microseconds.
StrTimedelta(t) ==
    LET days == t.sec \div 86400
        seconds == t.sec % 86400
        hh == seconds \div 3600
        mm == (seconds % 3600) \div 60
        ss == seconds % 60
        s == IntToStr(hh) \o <<":">> \o Pad2(mm) \o <<":">> \o Pad2(ss)
        d == IF days = 0 THEN << >>
             ELSE IntToStr(days) \o <<" ", "d", "a", "y">>
                  \o (IF days # 1 THEN <<"s">> ELSE << >>) \o <<",", " ">>
        u == IF t.us = 0 THEN << >> ELSE <<".">> \o Pad6(t.us)
    IN  d \o s \o u

\* s.rjust(width, fill)
RJust(s, width, fill) ==
    IF Len(s) >= width THEN s ELSE [k \in 1..(width - Len(s)) |-> fill] \o s

\* str(timedelta(seconds=x)).rjust(12, "0")[:-3].replace(".", ",")
FormatTimestamp(t) ==
    LET padded == RJust(StrTimedelta(t), 12, "0")
    IN  Replace(SubSeq(padded, 1, Len(padded) - 3), ".", ",")

\* The record _process_segments appends for one raw segment.
ProcessedSegment(raw) ==
    [start |-> FormatTimestamp(raw.start),
     end |-> FormatTimestamp(raw.end),
     text |-> Strip(raw.text)]

\* The text of raw segment k: its number, with blanks around it that differ from
\* segment to segment; every fifth text is blank.
RawText(k, shift) ==
    LET pad == (k + shift) % 3
        left == IF pad = 0 THEN <<" ">> ELSE IF pad = 1 THEN << >> ELSE <<"\n", " ">>
        right == IF pad = 0 THEN << >> ELSE IF pad = 1 THEN <<" ", "\t">> ELSE <<" ">>
    IN  IF (k + shift) % 5 = 4 THEN <<" ">>
        ELSE left \o <<"s">> \o IntToStr(k) \o <<" ", "w">> \o right

RawSegments(n, shift) ==
    [k \in 1..n |->
        [start |-> Times[shift + k], end |-> Times[shift + k + 1], text |-> RawText(k, shift)]]

\* What translate_batch answers for a batch: the texts translated by the first
\* endpoint, or left as they are where the translation failed; blank texts are
\* never sent.
BatchOutcomes == {"translated", "failed", "mixed"}

TranslateBatchResult(batch, outcome) ==
    [j \in 1..Len(batch) |->
        IF IsBlank(batch[j]) \/ outcome = "failed" \/ (outcome = "mixed" /\ j % 2 = 0)
          THEN batch[j]
          ELSE Translated(SERVERS[1], batch[j])]

\* min(a, b)
Min(a, b) == IF a < b THEN a ELSE b

RECURSIVE SumSeq(_)
SumSeq(s) == IF s = << >> THEN 0 ELSE Head(s) + SumSeq(Tail(s))

\* len(text.split())
WordCount(text) ==
    Cardinality({k \in 1..Len(text) :
        /\ text[k] \notin Whitespace
        /\ (k = 1 \/ text[k - 1] \in Whitespace)})

\* float(s) for digits with at most one point, in milliseconds (the first three
\* digits of the fraction); anything else is a ValueError, which is None here.
ParseFloatMs(s) ==
    LET t == Strip(s)
        parts == Split(t, <<".">>)
        whole == parts[1]
        frac == IF Len(parts) = 2 THEN parts[2] ELSE << >>
    IN  IF \/ Len(parts) > 2
           \/ (whole = << >> /\ frac = << >>)
           \/ (whole # << >> /\ ~IsDigits(whole))
           \/ (frac # << >> /\ ~IsDigits(frac))
          THEN None
          ELSE Some(1000 * Decimal(whole) + Decimal(Millis(frac)))

\* int(parts[0]) * 3600 + int(parts[1]) * 60 + float(parts[2].replace(",", ".")),
\* in milliseconds; None when the expression raises.
ParseSecondsMs(timestamp) ==
    LET parts == Split(timestamp, <<":">>)
    IN  IF Len(parts) < 3 THEN None
        ELSE
        LET h == ParseInt(parts[1])
            m == ParseInt(parts[2])
            s == ParseFloatMs(Replace(parts[3], ",", "."))
        IN  IF h.ok /\ m.ok /\ s.ok
              THEN Some(h.value * 3600000 + m.value * 60000 + s.value)
              ELSE None

\* The duration calculate_reading_speed appends for a segment, in milliseconds;
\* None when the try block raises and the segment is passed over.
SegmentDuration(segment) ==
    LET start_seconds == ParseSecondsMs(segment.start)
        end_seconds == ParseSecondsMs(segment.end)
    IN  IF start_seconds.ok /\ end_seconds.ok
          THEN Some(end_seconds.value - start_seconds.value)
          ELSE None

\* A quotient the code computes in floating point, kept as numerator and denominator.
Ratio(num, den) == [num |-> num, den |-> den]

\* A calculate_reading_speed whose early return hands back the duration it was given.
CalculateReadingSpeedKeepsDuration(segments, total_duration) ==
    [avg_speed |-> 0, total_chars |-> 0, total_words |-> 0,
     total_duration |-> IF total_duration.ok THEN total_duration.value ELSE 0]

\* calculate_reading_speed; durations in milliseconds.
CalculateReadingSpeed(segments, total_duration) ==
    IF segments = << >>
      THEN [avg_speed |-> 0, total_chars |-> 0, total_words |-> 0, total_duration |-> 0]
      ELSE
      LET n == Len(segments)
          total_chars == SumSeq([k \in 1..n |-> Len(segments[k].text)])
          total_words == SumSeq([k \in 1..n |-> WordCount(segments[k].text)])
          durations == [k \in 1..n |-> SegmentDuration(segments[k])]
          total_speaking_duration ==
              SumSeq([k \in 1..n |-> IF durations[k].ok THEN durations[k].value ELSE 0])
      IN  [avg_speed_cps |-> IF total_speaking_duration > 0
                               THEN Ratio(total_chars * 1000, total_speaking_duration)
                               ELSE Ratio(0, 1),
           avg_speed_wpm |-> IF total_speaking_duration > 0
                               THEN Ratio(total_words * 60000, total_speaking_duration)
                               ELSE Ratio(0, 1),
           total_chars |-> total_chars,
           total_words |-> total_words,
           total_speaking_duration |-> total_speaking_duration,
           total_duration |-> IF total_duration.ok /\ total_duration.value # 0
                                THEN total_duration.value
                                ELSE total_speaking_duration]

\* max(char_lengths) of a non-empty list
MaxOf(s) == CHOOSE m \in {s[k] : k \in 1..Len(s)} : \A k \in 1..Len(s) : s[k] <= m

\* get_subtitle_stats; durations in milliseconds.
GetSubtitleStats(segments) ==
    IF segments = << >>
      THEN [count |-> 0, duration |-> 0, avg_length |-> 0, max_length |-> 0]
      ELSE
      LET count == Len(segments)
          char_lengths == [k \in 1..count |-> Len(segments[k].text)]
          parsed == SelectSeq([k \in 1..count |-> SegmentDuration(segments[k])],
                              LAMBDA d : d.ok)
          durations == [k \in 1..Len(parsed) |-> parsed[k].value]
      IN  [count |-> count,
           total_duration |-> SumSeq(durations),
           avg_duration |-> IF durations # << >>
                              THEN Ratio(SumSeq(durations), Len(durations))
                              ELSE Ratio(0, 1),
           avg_length |-> Ratio(SumSeq(char_lengths), count),
           max_length |-> MaxOf(char_lengths)]

\* The total_duration argument: left out (None), zero, five seconds.
TotalDurations == {[ok |-> FALSE, value |-> 0], Some(0), Some(5000)}

SegInit ==
    \E n \in 0..MaxRawSegments, shift \in Shifts, translate \in BOOLEAN :
        seg = [pc |-> "process", translate |-> translate, raw |-> RawSegments(n, shift),
               idx |-> 0, segments |-> << >>, progress |-> << >>,
               texts |-> << >>, i |-> 0, batches |-> << >>, stats |-> << >>,
               subtitle_stats |-> << >>]

\* One iteration of the loop of _process_segments.
SegProcessSegment ==
    /\ seg.pc = "process"
    /\ seg.idx < Len(seg.raw)
    /\ seg' = [seg EXCEPT
                 !.segments = Append(@, ProcessedSegment(seg.raw[seg.idx + 1])),
                 !.progress = IF seg.translate THEN @
                              ELSE Append(@, SegmentProgress(seg.idx, Len(seg.raw))),
                 !.idx = @ + 1]
    /\ UNCHANGED <<runVars, tr, fmt, ts, prefs>>

\* _process_segments returns; run() goes on to the translation if it is enabled.
SegProcessReturn ==
    /\ seg.pc = "process"
    /\ seg.idx = Len(seg.raw)
    /\ seg' = [seg EXCEPT !.pc = IF seg.translate THEN "translate" ELSE "stats"]
    /\ UNCHANGED <<runVars, tr, fmt, ts, prefs>>

\* _translate_segments up to its loop.
SegTranslateStart ==
    /\ seg.pc = "translate"
    /\ seg' = [seg EXCEPT !.progress = Append(@, 70),
                          !.texts = [k \in 1..Len(seg.segments) |-> seg.segments[k].text],
                          !.i = 0,
                          !.pc = "batch"]
    /\ UNCHANGED <<runVars, tr, fmt, ts, prefs>>

\* A batch that always claims batch_size indices.
BatchIndicesPastEnd(i, batch_size, total_texts) ==
    [j \in 1..batch_size |-> i + j - 1]

\* list(range(i, min(i + batch_size, total_texts)))
BatchIndices(i, batch_size, total_texts) ==
    [j \in 1..(Min(i + batch_size, total_texts) - i) |-> i + j - 1]

\* One iteration of the loop of _translate_segments; indices are 0-based as in the code.
SegTranslateBatch ==
    /\ seg.pc = "batch"
    /\ seg.i < Len(seg.texts)
    /\ LET total_texts == Len(seg.texts)
           batch_size == BatchSize(total_texts)
           last == Min(seg.i + batch_size, total_texts)
           batch == SubSeq(seg.texts, seg.i + 1, last)
           batch_indices == BatchIndices(seg.i, batch_size, total_texts)
       IN  \E outcome \in BatchOutcomes :
             LET translated_batch == TranslateBatchResult(batch, outcome)
             IN  seg' = [seg EXCEPT
                           !.progress = Append(@, BatchProgress(seg.i, total_texts)),
                           !.segments =
                               [k \in 1..Len(@) |->
                                   IF \E j \in 1..Len(batch_indices) : batch_indices[j] = k - 1
                                     THEN [@[k] EXCEPT !.text = translated_batch[k - seg.i]]
                                     ELSE @[k]],
                           !.batches = Append(@, [indices |-> batch_indices,
                                                  texts |-> batch,
                                                  result |-> translated_batch]),
                           !.i = @ + batch_size]
    /\ UNCHANGED <<runVars, tr, fmt, ts, prefs>>

\* The loop is over: 95 is emitted and the segments are returned.
SegTranslateReturn ==
    /\ seg.pc = "batch"
    /\ seg.i >= Len(seg.texts)
    /\ seg' = [seg EXCEPT !.progress = Append(@, 95), !.pc = "stats"]
    /\ UNCHANGED <<runVars, tr, fmt, ts, prefs>>

\* calculate_reading_speed on the segments of the run.
SegReadingSpeed ==
    /\ seg.pc = "stats"
    /\ \E total_duration \in TotalDurations :
         seg' = [seg EXCEPT !.stats = CalculateReadingSpeed(seg.segments, total_duration),
                            !.pc = "done"]
    /\ UNCHANGED <<runVars, tr, fmt, ts, prefs>>

\* get_subtitle_stats on the segments of the run.
SegSubtitleStats ==
    /\ seg.pc = "done"
    /\ seg' = [seg EXCEPT !.subtitle_stats = GetSubtitleStats(seg.segments),
                          !.pc = "end"]
    /\ UNCHANGED <<runVars, tr, fmt, ts, prefs>>

InitSegments ==
    /\ MainInit
    /\ tr = TrIdle
    /\ fmt = FmtIdle
    /\ ts = TsIdle
    /\ prefs = PrefsIdle
    /\ SegInit

NextSegments ==
    \/ SegProcessSegment
    \/ SegProcessReturn
    \/ SegTranslateStart
    \/ SegTranslateBatch
    \/ SegTranslateReturn
    \/ SegReadingSpeed
    \/ SegSubtitleStats

SpecSegments == InitSegments /\ [][NextSegments]_vars

(***************************************************************************)
(* SpecSettings: the QSettings store ("SubGen", "AISubtitleGenerator"),    *)
(* which outlives the process, and the four widgets it is restored to.     *)
(* prefs.store is the store; a key never written is "unset".  A boolean is *)
(* kept in the store as "true" / "false" and read back with type=bool.     *)
(* prefs.closed is << >> until the window has been closed once, then the   *)
(* one-element sequence of the values in effect at the last closeEvent.    *)
(***************************************************************************)
SourceLanguages == {"auto", "en", "fr"}   \* codes of source_language_combo, "auto" first
TargetLanguages == {"en", "ar", "fr"}     \* codes of target_language_combo, "en" first

\* QSettings.setValue of a bool
FromBool(b) == IF b THEN "true" ELSE "false"

\* QSettings.value(key, False, type=bool)
ValueBool(stored) == IF stored = "unset" THEN FALSE ELSE stored = "true"

\* QSettings.value(key, default)
ValueStr(stored, default) == IF stored = "unset" THEN default ELSE stored

EmptyStore ==
    [dark_mode |-> "unset", source_language |-> "unset", translate |-> "unset",
     target_language |-> "unset"]

\* The widgets after setup_ui: both combos on their first item, "Transcribe only"
\* checked.  dark is ThemeManager.dark_mode, read from the store in its __init__.
SetupUi(store) ==
    [dark |-> ValueBool(store.dark_mode), source |-> "auto", translate |-> FALSE,
     target |-> "en"]

\* QComboBox.findData, then setCurrentIndex when the code is an item of the combo.
RestoreCombo(current, code, items) == IF code \in items THEN code ELSE current

\* restore_settings
RestoreSettings(w, store) ==
    LET translate == ValueBool(store.translate)
    IN  [dark |-> IF ValueBool(store.dark_mode) THEN TRUE ELSE w.dark,
         source |-> RestoreCombo(w.source, ValueStr(store.source_language, "en"),
                                 SourceLanguages),
         translate |-> IF translate THEN TRUE ELSE w.translate,
         target |-> IF translate
                    THEN RestoreCombo(w.target, ValueStr(store.target_language, "en"),
                                      TargetLanguages)
                    ELSE w.target]

\* save_settings
SaveSettings(w, store) ==
    [source_language |-> w.source, translate |-> FromBool(w.translate),
     target_language |-> w.target, dark_mode |-> FromBool(w.dark)]

PrefsInit ==
    prefs = [pc |-> "closed", store |-> EmptyStore, widgets |-> SetupUi(EmptyStore),
             closed |-> << >>]

\* SubtitleGenerator.__init__: ThemeManager(), setup_ui(), restore_settings()
PrefsStartup ==
    /\ prefs.pc = "closed"
    /\ prefs' = [prefs EXCEPT !.pc = "open",
                              !.widgets = RestoreSettings(SetupUi(prefs.store), prefs.store)]
    /\ UNCHANGED <<runVars, tr, fmt, ts, seg>>

\* toggle_theme: the theme button
PrefsToggleTheme ==
    /\ prefs.pc = "open"
    /\ prefs' = [prefs EXCEPT !.widgets.dark = ~@,
                              !.store.dark_mode = FromBool(~prefs.widgets.dark)]
    /\ UNCHANGED <<runVars, tr, fmt, ts, seg>>

\* The user picks a source language.
PrefsSelectSource ==
    /\ prefs.pc = "open"
    /\ \E code \in SourceLanguages : prefs' = [prefs EXCEPT !.widgets.source = code]
    /\ UNCHANGED <<runVars, tr, fmt, ts, seg>>

\* The user checks "Transcribe only" or "Translate to:".
PrefsSelectMode ==
    /\ prefs.pc = "open"
    /\ \E checked \in BOOLEAN : prefs' = [prefs EXCEPT !.widgets.translate = checked]
    /\ UNCHANGED <<runVars, tr, fmt, ts, seg>>

\* The user picks a target language; the combo is enabled while "Translate to:" is
\* checked.
PrefsSelectTarget ==
    /\ prefs.pc = "open"
    /\ prefs.widgets.translate
    /\ \E code \in TargetLanguages : prefs' = [prefs EXCEPT !.widgets.target = code]
    /\ UNCHANGED <<runVars, tr, fmt, ts, seg>>

\* generate_subtitles saves the settings before it does anything else.
PrefsGenerate ==
    /\ prefs.pc = "open"
    /\ prefs' = [prefs EXCEPT !.store = SaveSettings(prefs.widgets, prefs.store)]
    /\ UNCHANGED <<runVars, tr, fmt, ts, seg>>

\* closeEvent: save_settings, and the process ends.
PrefsClose ==
    /\ prefs.pc = "open"
    /\ prefs' = [prefs EXCEPT !.pc = "closed",
                              !.store = SaveSettings(prefs.widgets, prefs.store),
                              !.closed = <<prefs.widgets>>]
    /\ UNCHANGED <<runVars, tr, fmt, ts, seg>>

InitSettings ==
    /\ MainInit
    /\ tr = TrIdle
    /\ fmt = FmtIdle
    /\ ts = TsIdle
    /\ seg = SegIdle
    /\ PrefsInit

NextSettings ==
    \/ PrefsStartup
    \/ PrefsToggleTheme
    \/ PrefsSelectSource
    \/ PrefsSelectMode
    \/ PrefsSelectTarget
    \/ PrefsGenerate
    \/ PrefsClose

SpecSettings == InitSettings /\ [][NextSettings]_vars


(***************************************************************************)
(* What a run has emitted.                                                 *)
(***************************************************************************)
IsRunEvent(e) == e.src = "run"

\* The events run() itself emitted, in order (cancel()'s own signal left out).
RunEvents(r) == SelectSeq(thread[r].events, IsRunEvent)

Count(s, kind) == Cardinality({k \in 1..Len(s) : s[k].kind = kind})

HasProgress(s, pct) == \E k \in 1..Len(s) : s[k].kind = "progress" /\ s[k].pct = pct

IdleUi(u) == u.generate_visible /\ ~u.cancel_visible /\ ~u.progress_visible

(***************************************************************************)
(* C1.  If cancel() is called after the run has emitted progress 60, the   *)
(* run emits no transcription_complete afterwards, and a progress event    *)
(* with the message 'Cancelling operation...' is emitted.                  *)
(* The code reads the flag at fixed places only; a cancel() that arrives   *)
(* after the last read (transcription.py:191 or :199) is followed by       *)
(* "Complete!" and transcription_complete: the statement is violated.      *)
(***************************************************************************)
C1_CancelAfter60NeverCompletes ==
    \A r \in Runs :
        LET ev == thread[r].events
        IN  /\ thread[r].cancelled =>
                 \E k \in 1..Len(ev) :
                     ev[k].src = "cancel" /\ ev[k].msg = "Cancelling operation..."
            /\ \A k \in 1..Len(ev) :
                 (/\ ev[k].src = "cancel"
                  /\ \E j \in 1..(k - 1) : ev[j].src = "run" /\ ev[j].kind = "progress"
                                           /\ ev[j].pct = 60)
                 => \A m \in (k + 1)..Len(ev) : ev[m].kind # "complete"

(***************************************************************************)
(* C2.  In one run at most one terminal event is emitted (never both       *)
(* transcription_complete and error_occurred, neither twice); a run that   *)
(* ends without having been cancelled has emitted exactly one; and         *)
(* transcription_complete directly follows the run's progress 100.         *)
(***************************************************************************)
C2_OneTerminalEvent ==
    \A r \in Runs :
        LET s == RunEvents(r)
        IN  /\ Count(s, "complete") + Count(s, "error") <= 1
            /\ (thread[r].state = "finished" /\ ~thread[r].cancelled /\ s # << >>)
                 => Count(s, "complete") + Count(s, "error") = 1
            /\ \A k \in 1..Len(s) :
                 s[k].kind = "complete"
                 => k > 1 /\ s[k - 1].kind = "progress" /\ s[k - 1].pct = 100

\* A translating run over MaxSegments segments ended with transcription_complete,
\* never cancelled.
C2_Witness ==
    \E r \in Runs :
        /\ thread[r].state = "finished"
        /\ ~thread[r].cancelled
        /\ thread[r].translate
        /\ thread[r].segments = MaxSegments
        /\ Count(RunEvents(r), "complete") = 1

(***************************************************************************)
(* C3.  A run in which model loading, transcription or segment processing  *)
(* raises emits exactly one error_occurred, no transcription_complete and  *)
(* no progress 100, and ends there (the error is its last event: nothing   *)
(* is attempted again); and handle_transcription_error leaves Generate     *)
(* visible, Cancel hidden and the progress bar hidden.                     *)
(***************************************************************************)
C3_ErrorEndsRun ==
    \A r \in Runs :
        LET s == RunEvents(r)
        IN  Count(s, "error") > 0
            => /\ Count(s, "error") = 1
               /\ Count(s, "complete") = 0
               /\ ~HasProgress(s, 100)
               /\ s[Len(s)].kind = "error"
               /\ thread[r].state = "finished"

C3_ErrorHandling ==
    /\ []C3_ErrorEndsRun
    /\ [][DeliverError => IdleUi(ui')]_vars

\* The error of a run whose segment processing raised has been handled: it is no
\* longer queued, and the window is idle.
C3_Witness ==
    \E r \in Runs :
        /\ Count(RunEvents(r), "error") = 1
        /\ HasProgress(RunEvents(r), 65)
        /\ \A k \in 1..Len(queue) : queue[k].kind # "error"
        /\ IdleUi(ui)
        /\ main_pc = "loop"

(***************************************************************************)
(* C4.  translate_batch returns a list as long as texts whose position i   *)
(* holds the translation of texts[i] or texts[i] itself, whatever each     *)
(* task does (translates, fails on every endpoint, raises) and in whatever *)
(* order the tasks complete; a blank text stays as it is at its position   *)
(* and is never submitted.                                                 *)
(***************************************************************************)
C4_BatchKeepsLengthAndOrder ==
    /\ tr.pc \in {"batch_pool", "batch_done"} =>
         \A i \in tr.submitted : ~IsBlank(tr.texts[i])
    /\ tr.pc = "batch_done" =>
         /\ Len(tr.returned) = Len(tr.texts)
         /\ \A i \in 1..Len(tr.texts) :
              /\ \/ tr.returned[i] = tr.texts[i]
                 \/ \E k \in 1..Len(SERVERS) :
                      tr.returned[i] = Translated(SERVERS[k], tr.texts[i])
              /\ IsBlank(tr.texts[i]) => tr.returned[i] = tr.texts[i]

\* A returned batch of MaxTexts texts: the first blank, a later one translated, and
\* one whose task raised and whose text was kept.
C4_Witness ==
    /\ tr.pc = "batch_done"
    /\ Len(tr.texts) = MaxTexts
    /\ tr.texts[1] = <<" ">>
    /\ \E i, j \in 2..MaxTexts :
         /\ tr.returned[i] # tr.texts[i]
         /\ tr.futures[j].raised # "none"
         /\ tr.returned[j] = tr.texts[j]

(***************************************************************************)
(* C5.  translate_text never raises: whatever the endpoints answer, it     *)
(* returns a translated text or its input.                                 *)
(* The code catches requests.RequestException only: a 200 answer whose     *)
(* JSON value is null makes `"translatedText" in result` raise TypeError,  *)
(* and with requests < 2.27 a body that is not JSON raises ValueError.     *)
(***************************************************************************)
C5_TranslateTextNeverRaises ==
    tr.pc = "text_done" =>
        /\ tr.result.raised = "none"
        /\ \/ tr.result.value = tr.text
           \/ \E k \in 1..Len(SERVERS) : tr.result.value = Translated(SERVERS[k], tr.text)

(***************************************************************************)
(* C6.  translate_text contacts the endpoints in list order and returns    *)
(* the translation of the first one that answers 200 with the field,       *)
(* contacting none after it; every failure moves on to the next endpoint;  *)
(* if all fail the input is returned; a blank input is returned without    *)
(* any contact.                                                            *)
(* Fails with C5: a malformed 200 body ends the call with an exception     *)
(* instead of moving on to the next endpoint.                              *)
(***************************************************************************)
C6_FirstAnsweringEndpoint ==
    tr.pc = "text_done" =>
        LET good == {k \in 1..Len(SERVERS) : tr.oc[k] = "ok"}
            first == CHOOSE k \in good : \A j \in good : k <= j
        IN  IF IsBlank(tr.text)
              THEN tr.result = Returned(tr.text, << >>)
            ELSE IF good # {}
              THEN tr.result = Returned(Translated(SERVERS[first], tr.text),
                                        [k \in 1..first |-> SERVERS[k]])
            ELSE tr.result = Returned(tr.text, SERVERS)

(***************************************************************************)
(* C7.  For any segment list (empty, multi-line and comma-holding texts    *)
(* included) the VTT document made from its SRT serialization is the       *)
(* WEBVTT header once, followed by one cue per segment in order: the       *)
(* timing line with dots for commas, the segment's text, a blank line; no  *)
(* index lines.                                                            *)
(* save_srt_to_vtt splits the SRT text on blank lines: the block of a      *)
(* segment with empty text has two lines only and is dropped, so the       *)
(* statement is violated.                                                  *)
(***************************************************************************)
VttCue(segment) ==
    Replace(segment.start, ",", ".") \o Arrow \o Replace(segment.end, ",", ".") \o <<NL>>
        \o segment.text \o <<NL, NL>>

C7_VttKeepsEverySegment ==
    fmt.pc = "vtt" =>
        fmt.vtt = VttHeader \o Concat([k \in 1..Len(fmt.widgets) |-> VttCue(fmt.widgets[k])])

(***************************************************************************)
(* C8.  validate_timestamp is idempotent on valid input: for t of the form *)
(* HH:MM:SS,mmm (digits, minutes and seconds in 0..59) the result is not   *)
(* None, validating the result gives the result again, and the result is t *)
(* when t is zero-padded.                                                  *)
(***************************************************************************)
\* hours, minutes, seconds and milliseconds of t when t is digits:digits:digits,digits
FieldsOf(t) ==
    LET parts == Split(t, <<":">>)
        last == IF Len(parts) = 3 THEN Split(parts[3], <<",">>) ELSE << >>
    IN  IF Len(parts) = 3 /\ Len(last) = 2
          THEN <<parts[1], parts[2], last[1], last[2]>>
          ELSE << >>

ValidInput(t) ==
    LET f == FieldsOf(t)
    IN  /\ f # << >>
        /\ \A k \in 1..4 : IsDigits(f[k])
        /\ Decimal(f[2]) < 60
        /\ Decimal(f[3]) < 60

ZeroPadded(t) ==
    LET f == FieldsOf(t)
    IN  Len(f[1]) >= 2 /\ Len(f[2]) = 2 /\ Len(f[3]) = 2 /\ Len(f[4]) = 3

C8_ValidateIdempotent ==
    (ts.pc \in {"once", "twice"} /\ ValidInput(ts.t)) =>
        /\ ts.out.ok
        /\ ZeroPadded(ts.t) => ts.out.value = ts.t
        /\ ts.pc = "twice" => ts.again = ts.out

\* A valid input that is not zero-padded was normalized, and the result validated again.
C8_Witness ==
    /\ ts.pc = "twice"
    /\ ValidInput(ts.t)
    /\ ~ZeroPadded(ts.t)
    /\ ts.out.value # ts.t
    /\ ts.again.ok

(***************************************************************************)
(* C9.  validate_timestamp returns None exactly when the input does not    *)
(* split into 3 colon-separated parts, a part is not an integer, or        *)
(* minutes or seconds are outside 0..59 or hours negative; otherwise the   *)
(* result is HH:MM:SS,mmm, zero-padded, with a comma whatever the input's  *)
(* separator and the milliseconds right-padded to 3 digits ('1:2:3.5'      *)
(* gives '01:02:03,500', 'bad' gives None).                                *)
(* What follows the separator is never parsed: '0:2:3,5x' gives            *)
(* '00:02:03,5x0', which is neither None nor of that form.                 *)
(***************************************************************************)
C9_NoneExactlyWhenInvalid ==
    ts.pc \in {"once", "twice"} =>
        LET parts == Split(ts.t, <<":">>)
            sec == Split(Replace(parts[3], ",", "."), <<".">>)[1]
            h == ParseInt(parts[1])
            m == ParseInt(parts[2])
            x == ParseInt(sec)
            valid == /\ Len(parts) = 3
                     /\ h.ok /\ m.ok /\ x.ok
                     /\ h.value >= 0
                     /\ m.value \in 0..59
                     /\ x.value \in 0..59
            out == Split(ts.out.value, <<":">>)
        IN  /\ ts.out.ok <=> valid
            /\ valid =>
                 /\ Len(out) = 3
                 /\ out[1] = Pad2(h.value)
                 /\ out[2] = Pad2(m.value)
                 /\ SubSeq(out[3], 1, 3) = Pad2(x.value) \o <<",">>
                 /\ Len(out[3]) = 6
                 /\ IsDigits(SubSeq(out[3], 4, 6))
            /\ ts.t = <<"1", ":", "2", ":", "3", ".", "5">>
                 => ts.out = Some(<<"0", "1", ":", "0", "2", ":", "0", "3", ",", "5", "0", "0">>)
            /\ ts.t = <<"b", "a", "d">> => ts.out = None

(***************************************************************************)
(* C10.  get_srt_content over n segments is the concatenation, for         *)
(* i = 1..n in list order, of: i, newline, 'start --> end', newline, text, *)
(* newline, blank line; the empty string for no segment; and for the one   *)
(* segment 00:00:01,000 / 00:00:03,000 / 'Hi' the text                     *)
(* '1\n00:00:01,000 --> 00:00:03,000\nHi\n\n'.                             *)
(***************************************************************************)
Numerals ==
    <<<<"1">>, <<"2">>, <<"3">>, <<"4">>, <<"5">>, <<"6">>, <<"7">>, <<"8">>, <<"9">>,
      <<"1", "0">>, <<"1", "1">>, <<"1", "2">>>>

\* The length of the first i blocks of the expected text.
RECURSIVE BlocksLength(_, _)
BlocksLength(w, i) ==
    IF i = 0 THEN 0
    ELSE BlocksLength(w, i - 1) + Len(Numerals[i]) + 1 + Len(w[i].start) + Len(Arrow)
             + Len(w[i].end) + 1 + Len(w[i].text) + 2

C10_SrtIsTheNumberedBlocks ==
    fmt.pc \in {"srt", "vtt"} =>
        LET w == fmt.widgets
        IN  /\ w = << >> => fmt.srt = << >>
            /\ Len(fmt.srt) = BlocksLength(w, Len(w))
            /\ \A i \in 1..Len(w) :
                 SubSeq(fmt.srt, BlocksLength(w, i - 1) + 1, BlocksLength(w, i))
                   = Numerals[i] \o <<NL>> \o w[i].start \o Arrow \o w[i].end \o <<NL>>
                       \o w[i].text \o <<NL, NL>>
            /\ w = <<ExampleSegment>> =>
                 fmt.srt = <<"1", NL, "0", "0", ":", "0", "0", ":", "0", "1", ",", "0", "0", "0", " ", "-", "-", ">", " ", "0", "0", ":", "0", "0", ":", "0", "3", ",", "0", "0", "0", NL, "H", "i", NL, NL>>

\* The longest editor has been serialized: its last block carries a two-digit index.
C10_Witness ==
    /\ fmt.pc = "srt"
    /\ Len(fmt.widgets) = MaxLongList
    /\ fmt.srt # << >>

(***************************************************************************)
(* Segment lists: what SpecSegments has computed.                          *)
(***************************************************************************)
IsDigit(c) == \E d \in 1..10 : Digits[d] = c

\* HH:MM:SS,mmm
TimestampForm(s) ==
    /\ Len(s) = 12
    /\ \A k \in 1..12 :
         IF k \in {3, 6} THEN s[k] = ":"
         ELSE IF k = 9 THEN s[k] = ","
         ELSE IsDigit(s[k])

\* The instant a string of that form denotes, in milliseconds.
MillisOf(s) ==
    ((Decimal(SubSeq(s, 1, 2)) * 60 + Decimal(SubSeq(s, 4, 5))) * 60
        + Decimal(SubSeq(s, 7, 8))) * 1000 + Decimal(SubSeq(s, 10, 12))

\* A raw time truncated to milliseconds.
TruncatedMs(t) == t.sec * 1000 + (t.us \div 1000)

\* text is raw without the whitespace at its two ends.
IsStripped(text, raw) ==
    /\ text = << >> \/ (text[1] \notin Whitespace /\ text[Len(text)] \notin Whitespace)
    /\ \E a \in 0..Len(raw) :
         /\ a + Len(text) <= Len(raw)
         /\ SubSeq(raw, a + 1, a + Len(text)) = text
         /\ \A k \in 1..Len(raw) : (k <= a \/ k > a + Len(text)) => raw[k] \in Whitespace

\* C11: every record _process_segments has appended carries start and end in the
\* form HH:MM:SS,mmm denoting the raw instants truncated to milliseconds and the raw
\* text without the whitespace around it, one record per raw segment, in order.
C11_ProcessedSegmentsWellFormed ==
    seg.pc = "process" =>
        /\ Len(seg.segments) = seg.idx
        /\ \A k \in 1..Len(seg.segments) :
             /\ TimestampForm(seg.segments[k].start)
             /\ TimestampForm(seg.segments[k].end)
             /\ MillisOf(seg.segments[k].start) = TruncatedMs(seg.raw[k].start)
             /\ MillisOf(seg.segments[k].end) = TruncatedMs(seg.raw[k].end)
             /\ IsStripped(seg.segments[k].text, seg.raw[k].text)

\* C12: calculate_reading_speed on an empty segment list has returned a result, and
\* every field of the result is the number zero.
C12_EmptyListGivesZeros ==
    (seg.pc = "done" /\ seg.segments = << >>) =>
        /\ DOMAIN seg.stats # {}
        /\ \A f \in DOMAIN seg.stats : seg.stats[f] = 0

C12_Witness ==
    /\ seg.pc = "done"
    /\ seg.raw = << >>
    /\ seg.segments = << >>
    /\ seg.stats.total_chars = 0
    /\ seg.stats.total_duration = 0

\* C17: when _translate_segments has returned, the list has one segment per input
\* segment in the input's order, with the input's start and end; the batches' index
\* lists, one after the other, are 0, 1, ..., n-1; each batch sent the input texts of
\* its indices, and each segment's text is what translate_batch answered for it.
C17_TranslationKeepsSegments ==
    (seg.translate /\ seg.pc \in {"stats", "done"}) =>
        LET n == Len(seg.raw)
            sent == Concat([b \in 1..Len(seg.batches) |-> seg.batches[b].indices])
        IN  /\ Len(seg.segments) = n
            /\ \A k \in 1..n :
                 /\ seg.segments[k].start = FormatTimestamp(seg.raw[k].start)
                 /\ seg.segments[k].end = FormatTimestamp(seg.raw[k].end)
            /\ sent = [k \in 1..n |-> k - 1]
            /\ \A b \in 1..Len(seg.batches) :
                 LET batch == seg.batches[b]
                 IN  /\ Len(batch.texts) = Len(batch.indices)
                     /\ Len(batch.result) = Len(batch.indices)
                     /\ \A j \in 1..Len(batch.indices) :
                          /\ IsStripped(batch.texts[j], seg.raw[batch.indices[j] + 1].text)
                          /\ seg.segments[batch.indices[j] + 1].text = batch.result[j]

\* Eleven segments: two batches of five and one of one, some texts translated.
C17_Witness ==
    /\ seg.translate
    /\ seg.pc = "done"
    /\ Len(seg.raw) = MaxRawSegments
    /\ Len(seg.batches) = 3
    /\ Len(seg.batches[3].indices) = 1
    /\ seg.segments[1].text # seg.texts[1]
    /\ seg.segments[MaxRawSegments].text # seg.texts[MaxRawSegments]

NonDecreasing(s) == \A k \in 1..(Len(s) - 1) : s[k] <= s[k + 1]

C16_EditsKeepTimesAndOrder ==
    fmt.pc # "idle" =>
        LET segments == GetSegments(fmt.widgets)
        IN  /\ Len(segments) = Len(fmt.set)
            /\ \A i \in 1..Len(fmt.set) :
                 /\ segments[i].start = fmt.set[i].start
                 /\ segments[i].end = fmt.set[i].end

\* Two segments with different times, the text of the first one edited.
C16_Witness ==
    /\ fmt.pc = "editor"
    /\ Len(fmt.set) = 2
    /\ fmt.set[1].start # fmt.set[2].start
    /\ fmt.widgets[1].text # fmt.set[1].text
    /\ GetSegments(fmt.widgets)[2].start = fmt.set[2].start

\* What position i of the returned list has to hold, by the texts and the endpoints'
\* answers alone.
ExpectedAt(i) ==
    LET answer == TranslateText(tr.texts[i], tr.oc[i], tr.old_requests)
    IN  IF i \in ToTranslate(tr.texts) /\ answer.raised = "none"
          THEN answer.value
          ELSE tr.texts[i]

\* C19: in a translate_batch call a position of the result list changes only by the
\* result of the task of that position, so that the returned list is fixed by the
\* texts and the answers, not by the order of completion; never more than max_workers
\* translate_text calls are in flight; none is left when the call returns.
C19_PoolTasksKeepToTheirIndex ==
    /\ tr.pc = "batch_pool" =>
         /\ Cardinality(tr.in_flight) <= tr.max_workers
         /\ tr.max_in_flight <= tr.max_workers
         /\ \A i \in 1..Len(tr.texts) :
              \/ tr.results[i] = tr.texts[i]
              \/ /\ i \in tr.submitted
                 /\ i \notin tr.waiting \cup tr.in_flight \cup tr.completed
                 /\ tr.results[i] = tr.futures[i].value
    /\ tr.pc = "batch_done" =>
         /\ tr.waiting = {} /\ tr.in_flight = {} /\ tr.completed = {}
         /\ tr.max_in_flight <= tr.max_workers
         /\ tr.returned = [i \in 1..Len(tr.texts) |-> ExpectedAt(i)]

\* MaxTexts tasks on two workers: the pool was full, a task had to wait, and a text
\* came back translated.
C19_Witness ==
    /\ tr.pc = "batch_done"
    /\ Cardinality(tr.submitted) = MaxTexts
    /\ tr.max_workers = 2
    /\ tr.max_in_flight = 2
    /\ \E i \in 1..MaxTexts : tr.returned[i] # tr.texts[i]

(***************************************************************************)
(* The progress protocol of a run.                                         *)
(***************************************************************************)
IsProgress(e) == e.kind = "progress"

\* The percentages run() itself has emitted, in order.
ProgressOf(r) ==
    LET p == SelectSeq(RunEvents(r), IsProgress)
    IN  [k \in 1..Len(p) |-> p[k].pct]

\* C14: every progress event of a run carries a percentage in 0..100; the run's own
\* events start 5, two model-loading events in 10..15, 30, 35, 60, 65, go on with
\* the events of the segment loop (65..95) or of the translation phase (70..95), and
\* 100 comes last, before transcription_complete.
C14_MilestonesInOrder ==
    \A r \in Runs :
        LET p == ProgressOf(r)
            n == Len(p)
            ev == thread[r].events
        IN  /\ \A k \in 1..Len(ev) : ev[k].kind = "progress" => ev[k].pct \in 0..100
            /\ \A k \in 1..n :
                 /\ k = 1 => p[k] = 5
                 /\ k \in {2, 3} => p[k] \in 10..15
                 /\ k = 4 => p[k] = 30
                 /\ k = 5 => p[k] = 35
                 /\ k = 6 => p[k] = 60
                 /\ k = 7 => p[k] = 65
                 /\ k > 7 =>
                      \/ p[k] = 100 /\ k = n
                      \/ p[k] \in (IF thread[r].translate THEN 70..95 ELSE 65..95)
            /\ Count(RunEvents(r), "complete") = 1 => (n >= 8 /\ p[n] = 100)

\* A run over MaxSegments segments that was not cancelled and did not fail has
\* completed: seven milestones, one event per segment, and 100.
C14_Witness ==
    \E r \in Runs :
        /\ thread[r].state = "finished"
        /\ ~thread[r].cancelled
        /\ ~thread[r].translate
        /\ Count(RunEvents(r), "complete") = 1
        /\ Len(ProgressOf(r)) = 8 + MaxSegments
        /\ ProgressOf(r)[8 + MaxSegments] = 100

\* C18: in a translating run, once cancel() has set the flag during the translation
\* phase (after 'Starting translation...', before _translate_segments has returned),
\* the run emits neither 'Translation completed.' nor progress 100 nor
\* transcription_complete.
C18_CancelEndsTranslationQuietly ==
    \A r \in Runs :
        LET ev == thread[r].events
        IN  \A j \in 1..Len(ev) :
              ( /\ thread[r].translate
                /\ ev[j].src = "cancel"
                /\ \E i \in 1..(j - 1) : ev[i].msg = "Starting translation..."
                /\ \A i \in 1..(j - 1) : ev[i].msg # "Translation completed." )
              => \A k \in (j + 1)..Len(ev) :
                    /\ ev[k].msg # "Translation completed."
                    /\ ~(ev[k].src = "run" /\ ev[k].kind = "progress" /\ ev[k].pct = 100)
                    /\ ev[k].kind # "complete"

(***************************************************************************)
(* Several runs (SpecRuns).                                                *)
(***************************************************************************)
Running == {r \in DOMAIN thread : thread[r].state = "running"}

\* C13: at most one WhisperTranscriptionThread is running at any time, over every
\* interleaving of file selections, Generate, Cancel and the workers' events.
C13_AtMostOneRunning == Cardinality(Running) <= 1

\* C15: from the start of a new run by generate_subtitles until that run ends, the
\* window holds no subtitle segments (save_subtitles tests self.subtitle_segments).
C15_NoSegmentsDuringRun ==
    IsRunning(transcription_thread) => subtitle_segments = 0

(***************************************************************************)
(* Audio extraction (Spec).                                                *)
(***************************************************************************)
\* C21: when the media tool fails during extract_audio, no worker is created or
\* started, audio_file is not assigned and the window is idle again (Generate
\* visible, Cancel hidden, progress hidden); for a file with an audio extension the
\* extraction branch is not entered (the bar is not moved to 5) and the worker is
\* started on the media file itself.
C21_FailedExtractionAbortsRun ==
    [][ /\ GenerateSubtitlesWith("failed") =>
            /\ thread' = thread
            /\ transcription_thread' = transcription_thread
            /\ audio_file' = audio_file
            /\ ui'.generate_visible
            /\ ~ui'.cancel_visible
            /\ ~ui'.progress_visible
        /\ GenerateSubtitlesWith("is_audio") =>
            /\ audio_file' = "media"
            /\ ui'.progress_value = 0
            /\ transcription_thread' # transcription_thread
            /\ thread[transcription_thread'].state = "unborn"
            /\ thread'[transcription_thread'].state = "running" ]_vars

\* The tool has failed: the timer generate_subtitles started runs, Generate is back
\* and no worker was ever created.
C21_Witness ==
    /\ timer_active
    /\ media_file = "video"
    /\ ui.generate_visible
    /\ Unborn = DOMAIN thread

(***************************************************************************)
(* Settings (SpecSettings).                                                *)
(***************************************************************************)
\* C22: a startup that follows a closeEvent restores the dark-mode flag, the source
\* language, the translate flag and the target language that were in effect when
\* the window closed.
C22_SettingsRoundTrip ==
    [][ (PrefsStartup /\ prefs.closed # << >>) => prefs'.widgets = prefs.closed[1] ]_vars

\* C23: in a run that is not cancelled, the percentages run() emits never decrease,
\* from the first event (5) to the last (100), translating or not.
C23_ProgressNeverGoesBack ==
    \A r \in Runs : ~thread[r].cancelled => NonDecreasing(ProgressOf(r))

(***************************************************************************)
(* Cancellation and the window's idle state.                               *)
(***************************************************************************)
\* cancel_generation has called cancel() on run r and has returned.
CancelReturned(r) == thread[r].cancelled /\ main_pc = "loop"

\* C24: once cancel_generation has returned for a run, handle_transcription_complete
\* is not executed for that run and no progress event of that run changes the bar.
C24_NothingShownAfterCancel ==
    [][ (queue # << >> /\ CancelReturned(Head(queue).run)) =>
            /\ ~DeliverComplete
            /\ DeliverProgress => ui'.progress_value = ui.progress_value ]_vars

RunInProgress ==
    /\ transcription_thread # 0
    /\ \/ IsRunning(transcription_thread)
       \/ main_pc # "loop"
       \/ \E k \in 1..Len(queue) :
            /\ queue[k].run = transcription_thread
            /\ queue[k].kind \in {"complete", "error"}

\* C26: in every reachable state exactly one of the Generate and Cancel buttons is
\* visible; Cancel is visible only while a run is in progress; and whenever Generate
\* is hidden, the run brings it back.
C26_OneButtonVisible ==
    /\ [](ui.generate_visible = ~ui.cancel_visible)
    /\ [](ui.cancel_visible => RunInProgress)
    /\ (~ui.generate_visible) ~> ui.generate_visible

\* A run was started and has ended with all of its events handled, and Generate is
\* visible again.
C26_Witness ==
    /\ transcription_thread # 0
    /\ thread[transcription_thread].state = "finished"
    /\ queue = << >>
    /\ main_pc = "loop"
    /\ ui.generate_visible
    /\ ~ui.cancel_visible

\* C27: whenever the window is idle (Generate visible, no run in progress) the timer
\* generate_subtitles started is not active.
C27_IdleWindowHasNoTimer ==
    (ui.generate_visible /\ ~RunInProgress) => ~timer_active

\* C28: if the 'Embed into Video' button is enabled, the selected media file has a
\* video extension, over any sequence of file selections, generations,
\* cancellations and completions.
C28_EmbedOnlyForVideo ==
    ui.embed_enabled => media_file = "video"

(***************************************************************************)
(* validate_timestamp: the form of what it returns.                        *)
(***************************************************************************)
\* Digits for the hours (at least two), ':', two digits, ':', two digits, ',' and
\* exactly three digits.
WellFormedTimestamp(s) ==
    LET n == Len(s)
    IN  /\ n >= 12
        /\ IsDigits(SubSeq(s, 1, n - 10))
        /\ s[n - 9] = ":"
        /\ IsDigits(SubSeq(s, n - 8, n - 7))
        /\ s[n - 6] = ":"
        /\ IsDigits(SubSeq(s, n - 5, n - 4))
        /\ s[n - 3] = ","
        /\ IsDigits(SubSeq(s, n - 2, n))

\* C29: whenever validate_timestamp returns a value other than None, the value is a
\* well-formed timestamp, for every input string, including ones with non-digit or
\* missing characters after the separator.
C29_ResultIsWellFormed ==
    (ts.pc \in {"once", "twice"} /\ ts.out.ok) => WellFormedTimestamp(ts.out.value)

(***************************************************************************)
(* The statistics functions: the fields of their results.                  *)
(***************************************************************************)
\* C30: calculate_reading_speed always returns the fields avg_speed_cps,
\* avg_speed_wpm, total_chars, total_words, total_speaking_duration and
\* total_duration, and get_subtitle_stats always returns count, total_duration,
\* avg_duration, avg_length and max_length, for an empty segment list as for a
\* non-empty one; both speeds are 0 when the summed durations are not positive.
C30_SameFieldsForEmptyList ==
    /\ seg.pc \in {"done", "end"} =>
         /\ DOMAIN seg.stats = {"avg_speed_cps", "avg_speed_wpm", "total_chars",
                                "total_words", "total_speaking_duration",
                                "total_duration"}
         /\ seg.stats.total_speaking_duration <= 0 =>
              /\ seg.stats.avg_speed_cps.num = 0
              /\ seg.stats.avg_speed_wpm.num = 0
    /\ seg.pc = "end" =>
         DOMAIN seg.subtitle_stats = {"count", "total_duration", "avg_duration",
                                      "avg_length", "max_length"}

====
